---- MODULE Spec2Model ----
(***************************************************************************)
(* TaskBot (src/bot.py): a task table scoped by owning user, the           *)
(* repository over it, the parser of the text completion, the service      *)
(* that renders one response per action and the message handler.           *)
(*                                                                         *)
(* Text is modelled as a sequence of one-character strings so that split,  *)
(* strip, int and the f-string renderings are computed, not assumed.       *)
(***************************************************************************)
EXTENDS Integers, Sequences, FiniteSets, TLC

\* ---------------------------------------------------------------- bounds
\* how many rows create may insert in one behaviour
MaxCreates == 2

Users == {1, 2}
\* identifiers a caller may ask for: every one the table can hold, plus one
TaskIds == 1..(MaxCreates + 1)

\* ------------------------------------------------------- string literals
Resp_create == <<"A", "c", "t", "i", "o", "n", ":", " ", "c", "r", "e", "a", "t", "e", ",", " ", "D", "e", "s", "c", "r", "i", "p", "t", "i", "o", "n", ":", " ", "\"", "B", "u", "y", " ", "g", "r", "o", "c", "e", "r", "i", "e", "s", "\"">>
Resp_list == <<"A", "c", "t", "i", "o", "n", ":", " ", "l", "i", "s", "t">>
Resp_update == <<"A", "c", "t", "i", "o", "n", ":", " ", "u", "p", "d", "a", "t", "e", ",", " ", "I", "D", ":", " ", "1", ",", " ", "D", "e", "s", "c", "r", "i", "p", "t", "i", "o", "n", ":", " ", "\"", "B", "u", "y", " ", "g", "r", "o", "c", "e", "r", "i", "e", "s", " ", "a", "n", "d", " ", "m", "i", "l", "k", "\"">>
Resp_delete == <<"A", "c", "t", "i", "o", "n", ":", " ", "d", "e", "l", "e", "t", "e", ",", " ", "I", "D", ":", " ", "1">>
Resp_read == <<"A", "c", "t", "i", "o", "n", ":", " ", "r", "e", "a", "d", ",", " ", "I", "D", ":", " ", "1">>
Resp_update_id_only == <<"A", "c", "t", "i", "o", "n", ":", " ", "u", "p", "d", "a", "t", "e", ",", " ", "I", "D", ":", " ", "1">>
Resp_update_id_last == <<"A", "c", "t", "i", "o", "n", ":", " ", "u", "p", "d", "a", "t", "e", ",", " ", "D", "e", "s", "c", "r", "i", "p", "t", "i", "o", "n", ":", " ", "\"", "B", "u", "y", " ", "m", "i", "l", "k", "\"", ",", " ", "I", "D", ":", " ", "1">>
Resp_create_no_desc == <<"A", "c", "t", "i", "o", "n", ":", " ", "c", "r", "e", "a", "t", "e">>
Resp_delete_no_id == <<"A", "c", "t", "i", "o", "n", ":", " ", "d", "e", "l", "e", "t", "e">>
Resp_unknown == <<"A", "c", "t", "i", "o", "n", ":", " ", "p", "u", "r", "g", "e">>
Resp_no_colon == <<"S", "o", "r", "r", "y">>
Str_Comma == <<",">>
Str_Colon == <<":">>
Str_DescriptionKey == <<"D", "e", "s", "c", "r", "i", "p", "t", "i", "o", "n", ":">>
Str_IDKey == <<"I", "D", ":">>
Str_create == <<"c", "r", "e", "a", "t", "e">>
Str_read == <<"r", "e", "a", "d">>
Str_update == <<"u", "p", "d", "a", "t", "e">>
Str_delete == <<"d", "e", "l", "e", "t", "e">>
Str_list == <<"l", "i", "s", "t">>
Str_TaskCreated == <<"T", "a", "s", "k", " ", "c", "r", "e", "a", "t", "e", "d", ":", " ">>
Str_Task == <<"T", "a", "s", "k", ":", " ">>
Str_TaskUpdated == <<"T", "a", "s", "k", " ", "u", "p", "d", "a", "t", "e", "d", ":", " ">>
Str_IdOpen == <<" ", "(", "I", "D", ":", " ">>
Str_IdClose == <<")">>
Str_TaskNotFound == <<"T", "a", "s", "k", " ", "n", "o", "t", " ", "f", "o", "u", "n", "d">>
Str_TaskDeleted == <<"T", "a", "s", "k", " ", "d", "e", "l", "e", "t", "e", "d">>
Str_NoTasksFound == <<"N", "o", " ", "t", "a", "s", "k", "s", " ", "f", "o", "u", "n", "d">>
Str_InvalidAction == <<"I", "n", "v", "a", "l", "i", "d", " ", "a", "c", "t", "i", "o", "n">>
Str_LineId == <<"I", "D", ":", " ">>
Str_LineDesc == <<",", " ", "D", "e", "s", "c", "r", "i", "p", "t", "i", "o", "n", ":", " ">>
Str_Newline == <<"\n">>
Str_BuyGroceries == <<"B", "u", "y", " ", "g", "r", "o", "c", "e", "r", "i", "e", "s">>
Str_TaskCreatedBuyGroceries1 == <<"T", "a", "s", "k", " ", "c", "r", "e", "a", "t", "e", "d", ":", " ", "B", "u", "y", " ", "g", "r", "o", "c", "e", "r", "i", "e", "s", " ", "(", "I", "D", ":", " ", "1", ")">>
Str_BuyGroceriesAndMilk == <<"B", "u", "y", " ", "g", "r", "o", "c", "e", "r", "i", "e", "s", " ", "a", "n", "d", " ", "m", "i", "l", "k">>

\* descriptions handed to the repository when it is called directly
Str_Empty == <<>>
Str_a == <<"a">>
Str_b == <<"b">>
Descriptions == {Str_Empty, Str_a, Str_b}

\* what the text-completion function may return (bot.py:96-101 and others)
Completions ==
  { Resp_create, Resp_list, Resp_update, Resp_delete, Resp_read,
    Resp_update_id_only, Resp_update_id_last, Resp_create_no_desc,
    Resp_delete_no_id, Resp_unknown, Resp_no_colon }

\* ------------------------------------------------------ Python's values
None == [kind |-> "None"]
Str(s) == [kind |-> "str", text |-> s]
Bool(b) == [kind |-> "bool", val |-> b]
List(items) == [kind |-> "list", items |-> items]
Raise(e) == [kind |-> "raise", exc |-> e]
TaskResponse(i, d, c) ==
  [kind |-> "TaskResponse", id |-> i, description |-> d, created_at |-> c]
TaskCreate(d) == [description |-> d]
TaskUpdate(d) == [description |-> d]

\* a test for `is not None` where the code tests truth
Truthy_IsNotNone(o) == o.kind = "str"

\* truth value of an Optional[str]: None and "" are false
Truthy(o) == o.kind = "str" /\ o.text # <<>>

\* ------------------------------------------------------ str operations
Whitespace == {" ", "\t", "\n"}
DigitChars == <<"0", "1", "2", "3", "4", "5", "6", "7", "8", "9">>

IsAt(s, sep, i) ==
  /\ i + Len(sep) - 1 <= Len(s)
  /\ SubSeq(s, i, i + Len(sep) - 1) = sep

RECURSIVE Find(_, _, _)
\* index of the leftmost occurrence of sep in s at or after i, 0 if none
Find(s, sep, i) ==
  IF i + Len(sep) - 1 > Len(s) THEN 0
  ELSE IF IsAt(s, sep, i) THEN i
  ELSE Find(s, sep, i + 1)

\* Python's `sub in s`
Contains(sub, s) == Find(s, sub, 1) # 0

RECURSIVE split(_, _)
\* str.split(sep): the pieces between the non-overlapping occurrences of sep
split(s, sep) ==
  LET p == Find(s, sep, 1)
  IN IF p = 0 THEN <<s>>
     ELSE <<SubSeq(s, 1, p - 1)>> \o split(SubSeq(s, p + Len(sep), Len(s)), sep)

RECURSIVE lstrip(_, _)
lstrip(s, chars) ==
  IF s # <<>> /\ Head(s) \in chars THEN lstrip(Tail(s), chars) ELSE s

RECURSIVE rstrip(_, _)
rstrip(s, chars) ==
  IF s # <<>> /\ s[Len(s)] \in chars
  THEN rstrip(SubSeq(s, 1, Len(s) - 1), chars) ELSE s

\* str.strip(chars); strip() with no argument strips whitespace
strip(s, chars) == rstrip(lstrip(s, chars), chars)

IsDigit(c) == \E i \in 1..10 : DigitChars[i] = c
DigitVal(c) == (CHOOSE i \in 1..10 : DigitChars[i] = c) - 1

RECURSIVE DigitsValue(_, _)
\* value of a digit string with single underscores between digits removed
DigitsValue(s, acc) ==
  IF s = <<>> THEN acc
  ELSE IF Head(s) = "_" THEN DigitsValue(Tail(s), acc)
  ELSE DigitsValue(Tail(s), acc * 10 + DigitVal(Head(s)))

\* a decimal literal int() accepts: digits, single underscores between them
IsDecimal(s) ==
  /\ s # <<>>
  /\ \A i \in 1..Len(s) : IsDigit(s[i]) \/ s[i] = "_"
  /\ IsDigit(s[1]) /\ IsDigit(s[Len(s)])
  /\ \A i \in 1..(Len(s) - 1) : ~(s[i] = "_" /\ s[i + 1] = "_")

\* int(s): surrounding whitespace and one sign allowed; anything else raises
int(s) ==
  LET t == strip(s, Whitespace)
      signed == t # <<>> /\ Head(t) \in {"+", "-"}
      body == IF signed THEN Tail(t) ELSE t
  IN IF ~IsDecimal(body) THEN Raise("ValueError")
     ELSE [kind |-> "int",
           val |-> IF signed /\ Head(t) = "-" THEN 0 - DigitsValue(body, 0)
                   ELSE DigitsValue(body, 0)]

RECURSIVE NatToStr(_)
NatToStr(n) ==
  IF n < 10 THEN <<DigitChars[n + 1]>>
  ELSE NatToStr(n \div 10) \o <<DigitChars[(n % 10) + 1]>>

\* the text an f-string puts for an int
IntToStr(n) == IF n < 0 THEN <<"-">> \o NatToStr(0 - n) ELSE NatToStr(n)

RECURSIVE join(_, _)
\* sep.join(lines)
join(sep, lines) ==
  IF lines = <<>> THEN <<>>
  ELSE IF Len(lines) = 1 THEN lines[1]
  ELSE lines[1] \o sep \o join(sep, Tail(lines))

\* ---------------------------------------------------------------- state
VARIABLES
  tasks,      \* the rows of table "tasks"
  now,        \* the clock datetime.utcnow reads; it moves on at each insert
  last,       \* the last call: what was asked and what came back
  issued,     \* history: who was given which identifier by create, oldest first
  removed     \* history: who deleted which identifier, oldest first

vars == <<tasks, now, last, issued, removed>>

\* a row of the table (class Task)
Task(i, u, d, c) ==
  [id |-> i, user_id |-> u, description |-> d, created_at |-> c]

SetMax(S) == CHOOSE x \in S : \A y \in S : y <= x

\* the rowid SQLite gives an INTEGER PRIMARY KEY column declared without
\* AUTOINCREMENT: one more than the largest rowid now in the table
NextId(db) == IF db = {} THEN 1 ELSE SetMax({t.id : t \in db}) + 1

\* the query without its owning-user condition
SelectOwned_AnyUser(db, user_id, task_id) == {t \in db : t.id = task_id}

\* select(Task).where(Task.id == task_id, Task.user_id == user_id)
SelectOwned(db, user_id, task_id) ==
  {t \in db : t.id = task_id /\ t.user_id = user_id}

\* the query without its where clause
SelectUser_All(db, user_id) == db

\* select(Task).where(Task.user_id == user_id)
SelectUser(db, user_id) == {t \in db : t.user_id = user_id}

ResponseOf(t) == TaskResponse(t.id, t.description, t.created_at)

RECURSIVE SortById(_)
\* the rows of a table scan, in rowid order
SortById(S) ==
  IF S = {} THEN <<>>
  ELSE LET m == CHOOSE t \in S : \A o \in S : t.id <= o.id
       IN <<m>> \o SortById(S \ {m})

\* ----------------------------------------------------------- repository
\* each operation yields the table after it, the value returned (or the
\* exception raised), the method called and the row it touched
Outcome(db, ret, call, row) ==
  [db |-> db, ret |-> ret, call |-> call, row |-> row]

NoRow == Task(0, 0, <<>>, 0)

\* the row is inserted and committed; the return statement then calls
\* db_task(created_at) with the name created_at unbound, which raises
create(db, clock, user_id, task) ==
  LET db_task == Task(NextId(db), user_id, task.description, clock)
  IN Outcome(db \cup {db_task}, Raise("NameError"), "create", db_task)

read(db, user_id, task_id) ==
  LET found == SelectOwned(db, user_id, task_id)
  IN IF found # {}
     THEN LET task == CHOOSE t \in found : TRUE
          IN Outcome(db, ResponseOf(task), "read", task)
     ELSE Outcome(db, None, "read", NoRow)

update(db, user_id, task_id, task) ==
  LET found == SelectOwned(db, user_id, task_id)
  IN IF found # {}
     THEN LET old == CHOOSE t \in found : TRUE
              db_task == IF Truthy(task.description)
                         THEN [old EXCEPT !.description = task.description.text]
                         ELSE old
          IN Outcome((db \ {old}) \cup {db_task}, ResponseOf(db_task),
                     "update", db_task)
     ELSE Outcome(db, None, "update", NoRow)

delete(db, user_id, task_id) ==
  LET found == SelectOwned(db, user_id, task_id)
  IN IF found # {}
     THEN LET task == CHOOSE t \in found : TRUE
          IN Outcome(db \ {task}, Bool(TRUE), "delete", task)
     ELSE Outcome(db, Bool(FALSE), "delete", NoRow)

list(db, user_id) ==
  LET rows == SortById(SelectUser(db, user_id))
  IN Outcome(db, List([i \in 1..Len(rows) |-> ResponseOf(rows[i])]),
             "list", NoRow)

\* ------------------------------------------------------------- analyzer
\* the dict analyze returns: the keys it holds and their values
Analysis(keys, action, description, id) ==
  [kind |-> "dict", keys |-> keys, action |-> action,
   description |-> description, id |-> id]

\* TaskAnalyzer.analyze on the completion text `result`
analyze(result) ==
  LET head == split(split(result, Str_Comma)[1], Str_Colon)
  IN IF Len(head) < 2 THEN Raise("IndexError")
     ELSE
       LET action == strip(head[2], Whitespace)
           hasDescription == Contains(Str_DescriptionKey, result)
           hasId == Contains(Str_IDKey, result)
           description ==
             IF hasDescription
             THEN strip(strip(split(result, Str_DescriptionKey)[2], Whitespace),
                        {"\""})
             ELSE <<>>
           id == IF hasId
                 THEN int(strip(split(result, Str_IDKey)[2], Whitespace))
                 ELSE [kind |-> "int", val |-> 0]
       IN IF id.kind = "raise" THEN id
          ELSE Analysis({"action"}
                          \cup (IF hasDescription THEN {"description"} ELSE {})
                          \cup (IF hasId THEN {"id"} ELSE {}),
                        action, description, id.val)

\* -------------------------------------------------------------- service
\* analysis.get("description")
GetDescription(analysis) ==
  IF "description" \in analysis.keys THEN Str(analysis.description) ELSE None

Render(prefix, t) ==
  Str(prefix \o t.description \o Str_IdOpen \o IntToStr(t.id) \o Str_IdClose)

RenderLine(t) == Str_LineId \o IntToStr(t.id) \o Str_LineDesc \o t.description

\* TaskService.handle_action: the outcome of the repository call with the
\* rendered string in place of the value returned; an exception passes through
handle_action(db, clock, user_id, analysis) ==
  LET action == analysis.action
      Failed(e) == Outcome(db, Raise(e), "none", NoRow)
      Rendered(r, text) == [r EXCEPT !.ret = text]
  IN
  IF action = Str_create THEN
    IF "description" \notin analysis.keys THEN Failed("KeyError")
    ELSE LET r == create(db, clock, user_id, TaskCreate(analysis.description))
         IN IF r.ret.kind = "raise" THEN r
            ELSE Rendered(r, Render(Str_TaskCreated, r.ret))
  ELSE IF action = Str_read THEN
    IF "id" \notin analysis.keys THEN Failed("KeyError")
    ELSE LET r == read(db, user_id, analysis.id)
         IN IF r.ret.kind = "raise" THEN r
            ELSE Rendered(r, IF r.ret # None THEN Render(Str_Task, r.ret)
                             ELSE Str(Str_TaskNotFound))
  ELSE IF action = Str_update THEN
    IF "id" \notin analysis.keys THEN Failed("KeyError")
    ELSE LET r == update(db, user_id, analysis.id,
                         TaskUpdate(GetDescription(analysis)))
         IN IF r.ret.kind = "raise" THEN r
            ELSE Rendered(r, IF r.ret # None THEN Render(Str_TaskUpdated, r.ret)
                             ELSE Str(Str_TaskNotFound))
  ELSE IF action = Str_delete THEN
    IF "id" \notin analysis.keys THEN Failed("KeyError")
    ELSE LET r == delete(db, user_id, analysis.id)
         IN IF r.ret.kind = "raise" THEN r
            ELSE Rendered(r, IF r.ret.val THEN Str(Str_TaskDeleted)
                             ELSE Str(Str_TaskNotFound))
  ELSE IF action = Str_list THEN
    LET r == list(db, user_id)
    IN IF r.ret.kind = "raise" THEN r
       ELSE Rendered(r,
              IF r.ret.items = <<>> THEN Str(Str_NoTasksFound)
              ELSE Str(join(Str_Newline,
                            [i \in 1..Len(r.ret.items) |->
                               RenderLine(r.ret.items[i])])))
  ELSE Outcome(db, Str(Str_InvalidAction), "none", NoRow)

\* --------------------------------------------------------------- router
\* handle_message with `completion` the text the chain returns for the
\* message: a str outcome is the text passed to message.answer, a raise
\* outcome is the exception that leaves the handler with nothing answered
handle_message(db, clock, user_id, completion) ==
  LET analysis == analyze(completion)
  IN IF analysis.kind = "raise" THEN Outcome(db, analysis, "none", NoRow)
     ELSE handle_action(db, clock, user_id, analysis)

\* ----------------------------------------------------------- the system
\* the record of a call: for create `id` is the identifier the row was given
Call(op, user, id, arg, r) ==
  [op |-> op, user |-> user, id |-> id, arg |-> arg, ret |-> r.ret]

Init ==
  /\ tasks = {}
  /\ now = 0
  /\ last = Call("init", 0, 0, None, Outcome({}, None, "none", NoRow))
  /\ issued = <<>>
  /\ removed = <<>>

\* the table, the clock and the history after outcome r of a call by user u
Commit(u, r) ==
  /\ r.call = "create" => Len(issued) < MaxCreates
  /\ tasks' = r.db
  /\ now' = IF r.call = "create" THEN now + 1 ELSE now
  /\ issued' = IF r.call = "create"
               THEN Append(issued, [user |-> u, id |-> r.row.id]) ELSE issued
  /\ removed' = IF r.call = "delete" /\ r.db # tasks
                THEN Append(removed, [user |-> u, id |-> r.row.id]) ELSE removed

Create(u, d) ==
  LET r == create(tasks, now, u, TaskCreate(d))
  IN /\ Commit(u, r)
     /\ last' = Call("create", u, r.row.id, Str(d), r)

Read(u, k) ==
  LET r == read(tasks, u, k)
  IN /\ Commit(u, r)
     /\ last' = Call("read", u, k, None, r)

Update(u, k, d) ==
  LET r == update(tasks, u, k, TaskUpdate(d))
  IN /\ Commit(u, r)
     /\ last' = Call("update", u, k, d, r)

Delete(u, k) ==
  LET r == delete(tasks, u, k)
  IN /\ Commit(u, r)
     /\ last' = Call("delete", u, k, None, r)

ListTasks(u) ==
  LET r == list(tasks, u)
  IN /\ Commit(u, r)
     /\ last' = Call("list", u, 0, None, r)

HandleMessage(u, completion) ==
  LET r == handle_message(tasks, now, u, completion)
  IN /\ Commit(u, r)
     /\ last' = Call("handle_message", u, 0, Str(completion), r)

\* the repository called directly, as test_task_crud calls it
NextRepo ==
  \/ \E u \in Users, d \in Descriptions : Create(u, d)
  \/ \E u \in Users, k \in TaskIds : Read(u, k)
  \/ \E u \in Users, k \in TaskIds,
        d \in {None} \cup {Str(x) : x \in Descriptions} : Update(u, k, d)
  \/ \E u \in Users, k \in TaskIds : Delete(u, k)
  \/ \E u \in Users : ListTasks(u)

SpecRepo == Init /\ [][NextRepo]_vars

\* the bot: every message goes through analyze and handle_action
NextBot == \E u \in Users, c \in Completions : HandleMessage(u, c)

SpecBot == Init /\ [][NextBot]_vars

\* how many creates and how many successful deletes user u has performed
CreatedBy(u) == Cardinality({i \in 1..Len(issued) : issued[i].user = u})
DeletedBy(u) == Cardinality({i \in 1..Len(removed) : removed[i].user = u})

TypeOK ==
  /\ \A t \in tasks : t.id \in 1..MaxCreates /\ t.user_id \in Users
  /\ Len(issued) <= MaxCreates
  /\ now = Len(issued)

\* ================================================================ claims

\* the row of the table that user u owns under identifier k, as a set
Owned(db, u, k) == {t \in db : t.id = k /\ t.user_id = u}

\* C1: a call by one user never returns, changes or removes a task of another
\* user: every such task is still in the table, unchanged, after the call; the
\* value returned does not carry it; on its identifier read and update return
\* None and delete returns False
C1_CrossUserIsolation ==
  [][\A t \in tasks :
       t.user_id # last'.user =>
         /\ t \in tasks'
         /\ last'.ret.kind = "TaskResponse" => last'.ret.id # t.id
         /\ last'.ret.kind = "list" =>
              \A i \in 1..Len(last'.ret.items) : last'.ret.items[i].id # t.id
         /\ last'.op \in {"read", "update"} /\ last'.id = t.id =>
              last'.ret = None
         /\ last'.op = "delete" /\ last'.id = t.id => last'.ret = Bool(FALSE)
    ]_vars

\* C1 witness: a user has just asked to update, with a new description, an
\* identifier another user owns, has been answered None, and the row is there
C1_Witness ==
  /\ last.op = "update" /\ last.ret = None /\ Truthy(last.arg)
  /\ \E t \in tasks : t.id = last.id /\ t.user_id # last.user
                      /\ t.description # last.arg.text

\* C2: create with a non-empty description returns a task carrying that
\* description (and the identifier the row was given)
C2_CreateReturnsTask ==
  last.op = "create" /\ last.arg.text # <<>> =>
    /\ last.ret.kind = "TaskResponse"
    /\ last.ret.description = last.arg.text
    /\ last.ret.id = last.id

\* C3: update on a task the caller owns leaves the description when the new
\* one is None or empty and sets it otherwise; the task returned carries that
\* description; identifier, owner and timestamp stay, as does every other row
C3_UpdateFrame ==
  [][last'.op = "update" /\ Owned(tasks, last'.user, last'.id) # {} =>
       LET old == CHOOSE t \in Owned(tasks, last'.user, last'.id) : TRUE
           supplied == last'.arg # None /\ last'.arg.text # <<>>
           description == IF supplied THEN last'.arg.text ELSE old.description
       IN /\ tasks' = (tasks \ {old})
                        \cup {Task(old.id, old.user_id, description, old.created_at)}
          /\ last'.ret = TaskResponse(old.id, description, old.created_at)
    ]_vars

\* C3 witness: an update with an empty description has returned the task with
\* its description kept, and another task is in the table
C3_Witness ==
  /\ last.op = "update" /\ last.arg = Str(Str_Empty)
  /\ last.ret.kind = "TaskResponse" /\ last.ret.description = Str_a
  /\ Cardinality(tasks) = 2

\* C4: delete never raises; False and the table unchanged on an identifier
\* that is missing or another user's; True and exactly that row removed on an
\* owned one; from then on every read of that identifier by the owner returns
\* None and no second delete of it by the owner returns True
C4_Delete ==
  /\ [][last'.op = "delete" =>
          LET found == Owned(tasks, last'.user, last'.id)
          IN IF found = {}
             THEN last'.ret = Bool(FALSE) /\ tasks' = tasks
             ELSE last'.ret = Bool(TRUE) /\ tasks' = tasks \ found
       ]_vars
  /\ [](\A i \in 1..Len(removed) :
          last.user = removed[i].user /\ last.id = removed[i].id =>
            /\ last.op = "read" => last.ret = None
            /\ last.op = "delete" /\ i < Len(removed) => last.ret = Bool(FALSE))

\* C5: list for a user returns as many tasks as the user's creates less the
\* user's successful deletes, each a row the user owns with its description
\* of now, and none for a user who never created; the list a call has just
\* returned is that list
C5_ListCount ==
  \A u \in Users :
    LET items == list(tasks, u).ret.items
    IN /\ Len(items) = CreatedBy(u) - DeletedBy(u)
       /\ \A i \in 1..Len(items) :
            \E t \in tasks : /\ t.user_id = u /\ t.id = items[i].id
                             /\ t.description = items[i].description
       /\ CreatedBy(u) = 0 => items = <<>>
       /\ last.op = "list" /\ last.user = u => last.ret = List(items)

\* C5 witness: a list has returned one task to a user who created two and
\* deleted one, while the other user owns a task
C5_Witness ==
  /\ last.op = "list" /\ Len(last.ret.items) = 1
  /\ CreatedBy(last.user) = 2 /\ DeletedBy(last.user) = 1

\* the description and the identifier a response string renders
Rendering(prefix, description, id) ==
  Str(prefix \o description \o Str_IdOpen \o IntToStr(id) \o Str_IdClose)

\* the five verbs of an action descriptor
Verbs == {Str_create, Str_read, Str_update, Str_delete, Str_list}

\* C6: every completion is answered with a string, and a completion that does
\* not parse into a known action is answered "Invalid action", table unchanged
C6_NoCrash ==
  [][last'.op = "handle_message" =>
       /\ last'.ret.kind = "str"
       /\ (\/ analyze(last'.arg.text).kind = "raise"
           \/ analyze(last'.arg.text).action \notin Verbs)
          => last'.ret = Str(Str_InvalidAction) /\ tasks' = tasks
    ]_vars

\* C7: handle_action renders the one outcome of the table of section 4.3 for
\* the descriptor it is given, and the read, list, unrecognized and
\* "Task not found" outcomes leave the table unchanged
C7_Outcomes ==
  [][last'.op = "handle_message" /\ analyze(last'.arg.text).kind = "dict" =>
       LET a == analyze(last'.arg.text)
           u == last'.user
           own == Owned(tasks, u, a.id)
           mine == {t \in tasks : t.user_id = u}
       IN /\ a.action = Str_create /\ "description" \in a.keys =>
               \E k \in 1..(MaxCreates + 1) :
                 /\ last'.ret = Rendering(Str_TaskCreated, a.description, k)
                 /\ \E t \in tasks' \ tasks :
                      t.id = k /\ t.user_id = u /\ t.description = a.description
          /\ a.action = Str_read /\ "id" \in a.keys =>
               /\ tasks' = tasks
               /\ \A t \in own :
                    last'.ret = Rendering(Str_Task, t.description, t.id)
               /\ own = {} => last'.ret = Str(Str_TaskNotFound)
          /\ a.action = Str_update /\ "id" \in a.keys =>
               /\ \A t \in own :
                    \E s \in Owned(tasks', u, a.id) :
                      last'.ret = Rendering(Str_TaskUpdated, s.description, s.id)
               /\ own = {} => last'.ret = Str(Str_TaskNotFound) /\ tasks' = tasks
          /\ a.action = Str_delete /\ "id" \in a.keys =>
               /\ own # {} => last'.ret = Str(Str_TaskDeleted)
               /\ own = {} => last'.ret = Str(Str_TaskNotFound) /\ tasks' = tasks
          /\ a.action = Str_list =>
               /\ tasks' = tasks
               /\ mine = {} => last'.ret = Str(Str_NoTasksFound)
               /\ mine # {} =>
                    /\ last'.ret.kind = "str"
                    /\ LET lines == split(last'.ret.text, Str_Newline)
                       IN /\ Len(lines) = Cardinality(mine)
                          /\ {lines[i] : i \in 1..Len(lines)} =
                               {Str_LineId \o IntToStr(t.id) \o Str_LineDesc
                                  \o t.description : t \in mine}
          /\ a.action \notin Verbs =>
               last'.ret = Str(Str_InvalidAction) /\ tasks' = tasks
    ]_vars

\* C8: `Action: create, Description: "Buy groceries"` parses into the create
\* descriptor with description "Buy groceries" and on an empty table is
\* answered "Task created: Buy groceries (ID: 1)"; `Action: delete, ID: 1`
\* parses into the delete descriptor with id 1 and, with no task 1 in the
\* table, is answered "Task not found"
C8_Pipeline ==
  [][/\ analyze(Resp_create) =
          Analysis({"action", "description"}, Str_create, Str_BuyGroceries, 0)
     /\ analyze(Resp_delete) = Analysis({"action", "id"}, Str_delete, <<>>, 1)
     /\ tasks = {} /\ last'.op = "handle_message" /\ last'.arg = Str(Resp_create)
          => last'.ret = Str(Str_TaskCreatedBuyGroceries1)
     /\ (\A t \in tasks : t.id # 1) /\ last'.op = "handle_message"
          /\ last'.arg = Str(Resp_delete)
          => last'.ret = Str(Str_TaskNotFound)
    ]_vars

\* C9: the canned update completion parses into the update descriptor with
\* id 1 and description "Buy groceries and milk", and when the acting user
\* owns task 1 the task gets that description and the answer is
\* "Task updated: Buy groceries and milk (ID: 1)"
C9_UpdateCarriesBoth ==
  [][last'.op = "handle_message" /\ last'.arg = Str(Resp_update)
       /\ Owned(tasks, last'.user, 1) # {} =>
         /\ analyze(Resp_update) =
              Analysis({"action", "description", "id"}, Str_update,
                       Str_BuyGroceriesAndMilk, 1)
         /\ \E t \in Owned(tasks', last'.user, 1) :
              t.description = Str_BuyGroceriesAndMilk
         /\ last'.ret = Rendering(Str_TaskUpdated, Str_BuyGroceriesAndMilk, 1)
    ]_vars

\* C10: no two tasks in the table share an identifier; each create gives an
\* identifier greater than every identifier an earlier create gave; and a
\* task that stays in the table keeps its identifier and its owner
C10_IdsUniqueMonotonic ==
  /\ [](\A s, t \in tasks : s.id = t.id => s = t)
  /\ [](\A i, j \in 1..Len(issued) : i < j => issued[i].id < issued[j].id)
  /\ [][\A t \in tasks :
          (\E s \in tasks' : s.id = t.id) =>
            \E s \in tasks' : s.id = t.id /\ s.user_id = t.user_id
       ]_vars
====
